---- MODULE Spec2Model ----
(***************************************************************************)
(* Model of the batch solver of the collatz crate: collatz::solve          *)
(* (src/src/collatz.rs), the thread pool it drives, the mpsc channel the   *)
(* jobs report on, and the consumer of that channel (main.rs `receiver`,   *)
(* the test's `rx.iter().collect()`, or the benchmark's dropped Receiver). *)
(*                                                                         *)
(* One behaviour is one call solve(start, end, output_channel, batch_size, *)
(* threads).  Numbers are usize values small enough that no addition       *)
(* wraps; start >= 1 because the kernel is only defined for n >= 1.        *)
(* Wall-clock fields (start_time, end_time) of BatchSummary are not        *)
(* modelled: no step of solve reads them.                                  *)
(*                                                                         *)
(* MainSpec is main.rs: get_args, Args::batch_size and run, once for a    *)
(* bounded domain or window after window when end = 0.                     *)
(*                                                                         *)
(* KernelSpec runs the five kernels of collatz.rs on one input, one loop   *)
(* iteration per step, the way the tests' test_is_correct calls them.      *)
(***************************************************************************)
EXTENDS Naturals, Sequences, FiniteSets

\* ---------------------------------------------------------------- bounds
MaxStart == 3
MaxEnd == 6
MaxBatchSize == 3
MaxThreads == 2
\* Largest backpressure multiple considered when the spec's backpressure
\* statement is put to the code (the code itself has no such constant).
MaxMultiple == 2
\* Cap on the number of submissions, reached only when batch_size = 0 makes
\* the loop of solve run forever; a call with batch_size >= 1 submits at
\* most end - start <= MaxEnd - 1 batches.
MaxSubmitted == MaxEnd + 1
\* Largest input the kernels are run on on their own.
MaxNum == 30
\* main's `step_size` (20_000_000_000) and the default batch size of an
\* unbounded run (200_000_000), scaled down; the number of windows an
\* unbounded run is followed for.
StepSize == 4
DefaultBatchSize == 2
MaxWindows == 2

VARIABLES
    start,          \* solve's argument `start`
    end,            \* solve's argument `end`
    batch_size,     \* solve's argument `batch_size`
    threads,        \* solve's argument `threads`
    solve_pc,       \* where solve is: "new", "loop", "join", "returned", "panicked"
    batch_start,    \* solve's cursor `batch_start`
    submitted,      \* history: the batches handed to pool.execute, in order
    queue,          \* the pool's job queue (jobs not yet taken by a worker)
    worker,         \* per worker thread: the job it runs and the job's locals
    panic_count,    \* jobs that panicked ("channel broken!")
    senders,        \* live Sender handles: solve's own and one clone per job
    chan,           \* the mpsc channel: summaries sent and not yet received
    sendLog,        \* history: every send a job attempted, with its outcome
    rx,             \* the Receiver: "live", "dropped" or "done" (saw closure)
    received,       \* the summaries the consumer has received, in order
    solves,         \* receiver's accumulator `solves`
    rx_max_steps,   \* receiver's accumulator `max_steps`
    k_num,          \* the argument `num` a kernel is called with
    k_fn,           \* the kernel that is running, or "none"
    k_curr,         \* the running kernel's loop variable (num / curr_num)
    k_count,        \* the running kernel's `count`
    k_done,         \* the kernels that have returned
    k_result,       \* what each kernel returned
    k_last,         \* history: the loop variable each kernel returned with
    args,           \* main's `args`: start, end, batch_override, threads
    main_pc,        \* where main is: "get_args", "settings", "run", "solve",
                    \* "exit", "rejected", "panicked"; "none" when solve is
                    \* called by something else
    main_start,     \* main's local `start` (the argument of the next run)
    main_end,       \* main's local `end`
    windows         \* history: the calls of run that returned, in order

vars == <<start, end, batch_size, threads, solve_pc, batch_start, submitted,
          queue, worker, panic_count, senders, chan, sendLog, rx, received,
          solves, rx_max_steps, k_num, k_fn, k_curr, k_count, k_done, k_result,
          k_last, args, main_pc, main_start, main_end, windows>>

kernel_vars == <<k_num, k_fn, k_curr, k_count, k_done, k_result, k_last>>
main_vars == <<args, main_pc, main_start, main_end, windows>>
inputs == <<start, end, batch_size, threads, kernel_vars, main_vars>>
driver == <<solve_pc, batch_start, submitted>>
consumer == <<rx, received, solves, rx_max_steps>>

\* ------------------------------------------------------------ pure helpers
Min(a, b) == IF a < b THEN a ELSE b

Max_Smaller(a, b) == IF a > b THEN b ELSE a

Max(a, b) == IF a > b THEN a ELSE b

\* usize::trailing_zeros followed by >>: strip every factor 2 of n (n >= 1).
RECURSIVE ShiftTrailingZeros(_)
ShiftTrailingZeros(n) == IF n % 2 = 0 THEN ShiftTrailingZeros(n \div 2) ELSE n

\* The match in bitwise's loop: the next value of curr_num.
BitwiseNext_OneBit(curr_num) ==
    IF curr_num % 2 = 1 THEN (3 * curr_num + 1) \div 2 ELSE curr_num \div 2

BitwiseNext(curr_num) ==
    IF curr_num % 2 = 1
    THEN (3 * curr_num + 1) \div 2
    ELSE ShiftTrailingZeros(curr_num)

\* The while loop of bitwise: one iteration per call.
RECURSIVE BitwiseLoop(_, _, _)
BitwiseLoop(num, curr_num, count) ==
    IF curr_num >= num
    THEN BitwiseLoop(num, BitwiseNext(curr_num), count + 1)
    ELSE count

\* collatz::bitwise, the kernel the jobs of solve call.
bitwise(num) == IF num = 1 THEN 1 ELSE BitwiseLoop(num, num, 0)

\* A batch: the pair (batch_start, batch_end) a job closure captures.
Batch(s, e) == [start |-> s, end |-> e]

\* BatchSummary without its two timestamps.
BatchSummary(s, e, m) == [start |-> s, end |-> e, max_steps |-> m]

\* A worker thread waiting on the pool's queue.
Idle == [busy |-> FALSE, batch_start |-> 0, batch_end |-> 0, num |-> 0, max_steps |-> 0]

Workers == 1 .. threads

\* The names of the five kernels.
Kernels == {"recursive", "simple", "shortcut", "faster_shortcut", "bitwise"}

\* No kernel is being run on its own.
KernelIdle ==
    /\ k_num = 0
    /\ k_fn = "none"
    /\ k_curr = 0
    /\ k_count = 0
    /\ k_done = {}
    /\ k_result = [k \in Kernels |-> 0]
    /\ k_last = [k \in Kernels |-> 0]

\* main is not running: solve is called directly.
MainIdle ==
    /\ args = [start |-> 0, end |-> 0, batch_override |-> << >>, threads |-> 0]
    /\ main_pc = "none"
    /\ main_start = 0
    /\ main_end = 0
    /\ windows = << >>

\* ------------------------------------------------------------------- Init
Init ==
    /\ start \in 1 .. MaxStart
    /\ end \in 0 .. MaxEnd
    /\ batch_size \in 0 .. MaxBatchSize
    /\ threads \in 0 .. MaxThreads
    /\ solve_pc = "new"
    /\ batch_start = start
    /\ submitted = << >>
    /\ queue = << >>
    /\ worker = [w \in 1 .. threads |-> Idle]
    /\ panic_count = 0
    /\ senders = 1
    /\ chan = << >>
    /\ sendLog = << >>
    /\ rx \in {"live", "dropped"}
    /\ received = << >>
    /\ solves = 0
    /\ rx_max_steps = 0
    /\ KernelIdle
    /\ MainIdle

\* ----------------------------------------------------------------- driver
\* `let pool = ThreadPool::new(threads); let mut batch_start = start;`
\* ThreadPool::new asserts threads >= 1; the panic unwinds solve, which
\* drops its Sender.
PoolNew ==
    /\ solve_pc = "new"
    /\ IF threads = 0
       THEN /\ solve_pc' = "panicked"
            /\ senders' = senders - 1
       ELSE /\ solve_pc' = "loop"
            /\ senders' = senders
    /\ batch_start' = start
    /\ UNCHANGED <<inputs, submitted, queue, worker, panic_count, chan, sendLog, consumer>>

\* The loop condition `while batch_start < end`.
LoopCond_OrUnbounded(bs) == end = 0 \/ bs < end

LoopCond_Le(bs) == bs <= end

LoopCond(bs) == bs < end

\* `let batch_end = min(batch_start + batch_size, end);`
BatchEnd_NoMin(bs) == bs + batch_size

BatchEnd(bs) == Min(bs + batch_size, end)

\* Jobs submitted and not finished: queued or running on a worker.
Outstanding == Len(queue) + Cardinality({w \in Workers : worker[w].busy})

\* One iteration of the loop: clone the Sender, pool.execute the job,
\* advance the cursor.
SolveSubmit_Backpressure ==
    /\ solve_pc = "loop"
    /\ LoopCond(batch_start)
    /\ Outstanding <= threads
    /\ Len(submitted) < MaxSubmitted
    /\ senders' = senders + 1
    /\ queue' = Append(queue, Batch(batch_start, BatchEnd(batch_start)))
    /\ submitted' = Append(submitted, Batch(batch_start, BatchEnd(batch_start)))
    /\ batch_start' = BatchEnd(batch_start)
    /\ UNCHANGED <<inputs, solve_pc, worker, panic_count, chan, sendLog, consumer>>

SolveSubmit ==
    /\ solve_pc = "loop"
    /\ LoopCond(batch_start)
    /\ Len(submitted) < MaxSubmitted
    /\ senders' = senders + 1
    /\ queue' = Append(queue, Batch(batch_start, BatchEnd(batch_start)))
    /\ submitted' = Append(submitted, Batch(batch_start, BatchEnd(batch_start)))
    /\ batch_start' = BatchEnd(batch_start)
    /\ UNCHANGED <<inputs, solve_pc, worker, panic_count, chan, sendLog, consumer>>

\* The loop condition is false: fall through to pool.join().
SolveLoopExit ==
    /\ solve_pc = "loop"
    /\ ~LoopCond(batch_start)
    /\ solve_pc' = "join"
    /\ UNCHANGED <<inputs, batch_start, submitted, queue, worker, panic_count,
                   senders, chan, sendLog, consumer>>

\* pool.join() waits until no job is queued or active, then solve returns,
\* dropping its own `output_channel`.  join does not look at panic_count.
SolveReturn_NoJoin ==
    /\ solve_pc = "join"
    /\ solve_pc' = "returned"
    /\ senders' = senders - 1
    /\ UNCHANGED <<inputs, batch_start, submitted, queue, worker, panic_count,
                   chan, sendLog, consumer>>

SolveReturn_KeepSender ==
    /\ solve_pc = "join"
    /\ Outstanding = 0
    /\ solve_pc' = "returned"
    /\ UNCHANGED <<inputs, batch_start, submitted, queue, worker, panic_count,
                   senders, chan, sendLog, consumer>>

SolveReturn_SurfacePanic ==
    /\ solve_pc = "join"
    /\ Outstanding = 0
    /\ solve_pc' = (IF panic_count > 0 THEN "panicked" ELSE "returned")
    /\ senders' = senders - 1
    /\ UNCHANGED <<inputs, batch_start, submitted, queue, worker, panic_count,
                   chan, sendLog, consumer>>

SolveReturn ==
    /\ solve_pc = "join"
    /\ Outstanding = 0
    /\ solve_pc' = "returned"
    /\ senders' = senders - 1
    /\ UNCHANGED <<inputs, batch_start, submitted, queue, worker, panic_count,
                   chan, sendLog, consumer>>

\* ---------------------------------------------------------------- workers
\* A pool thread takes the oldest queued job and starts it:
\* `let mut max_steps = 0; ... for num in batch_start..batch_end`.
WorkerDequeue_NoPop(w) ==
    /\ ~worker[w].busy
    /\ queue # << >>
    /\ worker' = [worker EXCEPT ![w] =
                    [busy |-> TRUE, batch_start |-> Head(queue).start,
                     batch_end |-> Head(queue).end, num |-> Head(queue).start,
                     max_steps |-> 0]]
    /\ UNCHANGED <<inputs, driver, queue, panic_count, senders, chan, sendLog, consumer>>

WorkerDequeue(w) ==
    /\ ~worker[w].busy
    /\ queue # << >>
    /\ worker' = [worker EXCEPT ![w] =
                    [busy |-> TRUE, batch_start |-> Head(queue).start,
                     batch_end |-> Head(queue).end, num |-> Head(queue).start,
                     max_steps |-> 0]]
    /\ queue' = Tail(queue)
    /\ UNCHANGED <<inputs, driver, panic_count, senders, chan, sendLog, consumer>>

\* One iteration of the job's for loop:
\* `max_steps = max(max_steps, bitwise(num));`
WorkerStep_LastValue(w) ==
    /\ worker[w].busy
    /\ worker[w].num < worker[w].batch_end
    /\ worker' = [worker EXCEPT ![w].max_steps = bitwise(worker[w].num),
                                ![w].num = @ + 1]
    /\ UNCHANGED <<inputs, driver, queue, panic_count, senders, chan, sendLog, consumer>>

WorkerStep(w) ==
    /\ worker[w].busy
    /\ worker[w].num < worker[w].batch_end
    /\ worker' = [worker EXCEPT ![w].max_steps = Max(@, bitwise(worker[w].num)),
                                ![w].num = @ + 1]
    /\ UNCHANGED <<inputs, driver, queue, panic_count, senders, chan, sendLog, consumer>>

\* The for loop is over: send the BatchSummary.  send fails exactly when the
\* Receiver has been dropped; `.expect("channel broken!")` then panics the
\* job.  Either way the closure's Sender clone is dropped and the pool has
\* a thread free again (the pool replaces a panicked thread).
WorkerSend_Retry(w) ==
    /\ worker[w].busy
    /\ worker[w].num >= worker[w].batch_end
    /\ sendLog' = Append(sendLog, [start |-> worker[w].batch_start,
                                   end |-> worker[w].batch_end,
                                   ok |-> rx # "dropped"])
    /\ IF rx # "dropped"
       THEN /\ chan' = Append(chan, BatchSummary(worker[w].batch_start,
                                                 worker[w].batch_end,
                                                 worker[w].max_steps))
            /\ worker' = [worker EXCEPT ![w] = Idle]
            /\ senders' = senders - 1
            /\ UNCHANGED panic_count
       ELSE /\ Len(sendLog) < 2 * MaxSubmitted
            /\ UNCHANGED <<chan, worker, senders, panic_count>>
    /\ UNCHANGED <<inputs, driver, queue, consumer>>

WorkerSend(w) ==
    /\ worker[w].busy
    /\ worker[w].num >= worker[w].batch_end
    /\ sendLog' = Append(sendLog, [start |-> worker[w].batch_start,
                                   end |-> worker[w].batch_end,
                                   ok |-> rx # "dropped"])
    /\ IF rx # "dropped"
       THEN /\ chan' = Append(chan, BatchSummary(worker[w].batch_start,
                                                 worker[w].batch_end,
                                                 worker[w].max_steps))
            /\ UNCHANGED panic_count
       ELSE /\ panic_count' = panic_count + 1
            /\ UNCHANGED chan
    /\ worker' = [worker EXCEPT ![w] = Idle]
    /\ senders' = senders - 1
    /\ UNCHANGED <<inputs, driver, queue, consumer>>

\* --------------------------------------------------------------- consumer
\* `rx.recv()` returns Ok(summary): the body of receiver's loop.
ConsumerRecv_CountBatches ==
    /\ rx = "live"
    /\ chan # << >>
    /\ received' = Append(received, Head(chan))
    /\ chan' = Tail(chan)
    /\ solves' = solves + 1
    /\ rx_max_steps' = Max(Head(chan).max_steps, rx_max_steps)
    /\ UNCHANGED <<inputs, driver, queue, worker, panic_count, senders, sendLog, rx>>

ConsumerRecv ==
    /\ rx = "live"
    /\ chan # << >>
    /\ received' = Append(received, Head(chan))
    /\ chan' = Tail(chan)
    /\ solves' = solves + (Head(chan).end - Head(chan).start)
    /\ rx_max_steps' = Max(Head(chan).max_steps, rx_max_steps)
    /\ UNCHANGED <<inputs, driver, queue, worker, panic_count, senders, sendLog, rx>>

\* `rx.recv()` returns Err: the channel is empty and every Sender is gone.
ConsumerClose_TryRecv ==
    /\ rx = "live"
    /\ chan = << >>
    /\ rx' = "done"
    /\ UNCHANGED <<inputs, driver, queue, worker, panic_count, senders, chan,
                   sendLog, received, solves, rx_max_steps>>

ConsumerClose ==
    /\ rx = "live"
    /\ chan = << >>
    /\ senders = 0
    /\ rx' = "done"
    /\ UNCHANGED <<inputs, driver, queue, worker, panic_count, senders, chan,
                   sendLog, received, solves, rx_max_steps>>

\* ------------------------------------------------------------------ specs
Driver == PoolNew \/ SolveSubmit \/ SolveLoopExit \/ SolveReturn

Worker(w) == WorkerDequeue(w) \/ WorkerStep(w) \/ WorkerSend(w)

Consumer == ConsumerRecv \/ ConsumerClose

Next ==
    \/ PoolNew
    \/ SolveSubmit
    \/ SolveLoopExit
    \/ SolveReturn
    \/ \E w \in Workers : WorkerDequeue(w)
    \/ \E w \in Workers : WorkerStep(w)
    \/ \E w \in Workers : WorkerSend(w)
    \/ ConsumerRecv
    \/ ConsumerClose

Spec == Init /\ [][Next]_vars

\* Every thread that can run eventually does: the driver, each pool thread
\* and the consumer are OS threads.
FairSpec ==
    /\ Init
    /\ [][Next]_vars
    /\ WF_vars(Driver)
    /\ \A w \in 1 .. MaxThreads : WF_vars(w \in Workers /\ Worker(w))
    /\ WF_vars(Consumer)

\* No call of solve is in progress.
SolveIdle ==
    /\ start = 0
    /\ end = 0
    /\ batch_size = 0
    /\ threads = 0
    /\ solve_pc = "idle"
    /\ batch_start = 0
    /\ submitted = << >>
    /\ queue = << >>
    /\ worker = << >>
    /\ panic_count = 0
    /\ senders = 0
    /\ chan = << >>
    /\ sendLog = << >>
    /\ rx = "none"
    /\ received = << >>
    /\ solves = 0
    /\ rx_max_steps = 0

solve_vars == <<start, end, batch_size, threads, solve_pc, batch_start, submitted,
                queue, worker, panic_count, senders, chan, sendLog, rx, received,
                solves, rx_max_steps>>

\* ------------------------------------------------------------------- main
\* Option<usize>: << >> is None, <<size>> is Some(size).
None == << >>

Some(size) == <<size>>

\* Args::batch_size.
Args_batch_size(a) ==
    IF a.batch_override # None
    THEN a.batch_override[1]
    ELSE IF a.end = 0
         THEN DefaultBatchSize
         ELSE (a.end - a.start) \div (a.threads * 2)

\* Args::parse: any command line.
InitMain ==
    /\ SolveIdle
    /\ KernelIdle
    /\ args \in [start : 1 .. MaxStart,
                 end : 0 .. MaxEnd,
                 batch_override : {None} \cup {Some(size) : size \in 0 .. MaxBatchSize},
                 threads : 0 .. MaxThreads]
    /\ main_pc = "get_args"
    /\ main_start = 0
    /\ main_end = 0
    /\ windows = << >>

\* get_args: `if args.end > 0 && args.end < args.start { cmd.error(..).exit() }`.
GetArgs ==
    /\ main_pc = "get_args"
    /\ main_pc' = (IF args.end > 0 /\ args.end < args.start THEN "rejected" ELSE "settings")
    /\ UNCHANGED <<solve_vars, kernel_vars, args, main_start, main_end, windows>>

\* main up to the first call of run: the println evaluates
\* args.batch_size(), which divides by threads * 2; then
\* `let mut start = args.start; let mut end = start + step_size;` when
\* args.end == 0, and run(args.start, args.end, ..) otherwise.
MainSettings ==
    /\ main_pc = "settings"
    /\ IF args.batch_override = None /\ args.end # 0 /\ args.threads = 0
       THEN /\ main_pc' = "panicked"
            /\ UNCHANGED <<main_start, main_end>>
       ELSE /\ main_pc' = "run"
            /\ main_start' = args.start
            /\ main_end' = (IF args.end = 0 THEN args.start + StepSize ELSE args.end)
    /\ UNCHANGED <<solve_vars, kernel_vars, args, windows>>

\* run: create the channel, spawn the receiver thread, call solve.
MainRun ==
    /\ main_pc = "run"
    /\ Len(windows) < MaxWindows
    /\ main_pc' = "solve"
    /\ start' = main_start
    /\ end' = main_end
    /\ batch_size' = Args_batch_size(args)
    /\ threads' = args.threads
    /\ solve_pc' = "new"
    /\ batch_start' = main_start
    /\ submitted' = << >>
    /\ queue' = << >>
    /\ worker' = [w \in 1 .. args.threads |-> Idle]
    /\ panic_count' = 0
    /\ senders' = 1
    /\ chan' = << >>
    /\ sendLog' = << >>
    /\ rx' = "live"
    /\ received' = << >>
    /\ solves' = 0
    /\ rx_max_steps' = 0
    /\ UNCHANGED <<kernel_vars, args, main_start, main_end, windows>>

\* What is recorded of a call of run when it returns: its domain, whether
\* its consumer had terminated, and whether the consumer had counted every
\* number of the domain.
Window == [start |-> start, end |-> end, terminated |-> rx = "done",
           counted |-> solves = end - start]

\* solve has returned and `receiver_thread.join()` too: run returns.  In
\* the loop of an unbounded run `start = end; end = start + step_size;`.
MainRunReturn_NoReceiverJoin ==
    /\ main_pc = "solve"
    /\ solve_pc = "returned"
    /\ windows' = Append(windows, Window)
    /\ IF args.end = 0
       THEN /\ main_pc' = "run"
            /\ main_start' = main_end
            /\ main_end' = main_end + StepSize
       ELSE /\ main_pc' = "exit"
            /\ UNCHANGED <<main_start, main_end>>
    /\ UNCHANGED <<solve_vars, kernel_vars, args>>

MainRunReturn ==
    /\ main_pc = "solve"
    /\ solve_pc = "returned"
    /\ rx = "done"
    /\ windows' = Append(windows, Window)
    /\ IF args.end = 0
       THEN /\ main_pc' = "run"
            /\ main_start' = main_end
            /\ main_end' = main_end + StepSize
       ELSE /\ main_pc' = "exit"
            /\ UNCHANGED <<main_start, main_end>>
    /\ UNCHANGED <<solve_vars, kernel_vars, args>>

\* solve panicked (ThreadPool::new(0)) on the main thread: main unwinds.
MainPanic ==
    /\ main_pc = "solve"
    /\ solve_pc = "panicked"
    /\ main_pc' = "panicked"
    /\ UNCHANGED <<solve_vars, kernel_vars, args, main_start, main_end, windows>>

Main == GetArgs \/ MainSettings \/ MainRun \/ MainRunReturn \/ MainPanic

NextMain ==
    \/ GetArgs
    \/ MainSettings
    \/ MainRun
    \/ MainRunReturn
    \/ MainPanic
    \/ PoolNew
    \/ SolveSubmit
    \/ SolveLoopExit
    \/ SolveReturn
    \/ \E w \in Workers : WorkerDequeue(w)
    \/ \E w \in Workers : WorkerStep(w)
    \/ \E w \in Workers : WorkerSend(w)
    \/ ConsumerRecv
    \/ ConsumerClose

MainSpec == InitMain /\ [][NextMain]_vars

\* ---------------------------------------------------------------- kernels
\* test_is_correct's `f(i + 1)` for one input i + 1, f each kernel in turn.
InitKernel ==
    /\ SolveIdle
    /\ MainIdle
    /\ k_num \in 1 .. MaxNum
    /\ k_fn = "none"
    /\ k_curr = 0
    /\ k_count = 0
    /\ k_done = {}
    /\ k_result = [k \in Kernels |-> 0]
    /\ k_last = [k \in Kernels |-> 0]

\* Entry of kernel k: `let (mut num, mut count) = (num, 0);` (simple,
\* shortcut), `_recurse(num, 0)`, `let mut count = 0; let mut curr_num = num;`
\* (faster_shortcut, bitwise).
KernelCall_CountFromOne(k) ==
    /\ k_fn = "none"
    /\ k \notin k_done
    /\ k_fn' = k
    /\ k_curr' = k_num
    /\ k_count' = 1
    /\ UNCHANGED <<k_num, k_done, k_result, k_last, solve_vars, main_vars>>

KernelCall(k) ==
    /\ k_fn = "none"
    /\ k \notin k_done
    /\ k_fn' = k
    /\ k_curr' = k_num
    /\ k_count' = 0
    /\ UNCHANGED <<k_num, k_done, k_result, k_last, solve_vars, main_vars>>

\* The running kernel goes round its loop once more.
KernelIterate(next, count) ==
    /\ k_curr' = next
    /\ k_count' = count
    /\ UNCHANGED <<k_num, k_fn, k_done, k_result, k_last, solve_vars, main_vars>>

\* The running kernel returns r.
KernelReturn(r) ==
    /\ k_done' = k_done \cup {k_fn}
    /\ k_result' = [k_result EXCEPT ![k_fn] = r]
    /\ k_last' = [k_last EXCEPT ![k_fn] = k_curr]
    /\ k_fn' = "none"
    /\ UNCHANGED <<k_num, k_curr, k_count, solve_vars, main_vars>>

\* One call of _recurse: the match on num.
RecursiveStep ==
    /\ k_fn = "recursive"
    /\ IF k_curr = 1
       THEN KernelReturn(k_count)
       ELSE IF k_curr % 2 = 0
            THEN KernelIterate(k_curr \div 2, k_count + 1)
            ELSE KernelIterate(3 * k_curr + 1, k_count + 1)

\* simple: `while num != 1 { num = match ...; count += 1; }` then `count`.
SimpleStep ==
    /\ k_fn = "simple"
    /\ IF k_curr # 1
       THEN KernelIterate(IF k_curr % 2 = 0 THEN k_curr \div 2 ELSE 3 * k_curr + 1,
                          k_count + 1)
       ELSE KernelReturn(k_count)

\* What shortcut and faster_shortcut add to count for a value: 1 for a
\* halving, 2 for an odd step folded with the halving after it.
ShortcutCount_OddCountsOne(num, count) == count + 1

ShortcutCount(num, count) == IF num % 2 = 0 THEN count + 1 ELSE count + 2

\* The next value in shortcut and faster_shortcut.
ShortcutNext(num) == IF num % 2 = 0 THEN num \div 2 ELSE (3 * num + 1) \div 2

\* shortcut: `while num != 1 { (num, count) = match ... }` then `count`.
ShortcutStep ==
    /\ k_fn = "shortcut"
    /\ IF k_curr # 1
       THEN KernelIterate(ShortcutNext(k_curr), ShortcutCount(k_curr, k_count))
       ELSE KernelReturn(k_count)

\* shortcut as a function: its loop, one iteration per call.
RECURSIVE ShortcutLoop(_, _)
ShortcutLoop(num, count) ==
    IF num # 1
    THEN ShortcutLoop(ShortcutNext(num), ShortcutCount(num, count))
    ELSE count

\* collatz::shortcut.
shortcut(num) == ShortcutLoop(num, 0)

\* faster_shortcut's loop condition `while curr_num >= num`.
FasterCond_Strict(num, curr_num) == curr_num > num

FasterCond(num, curr_num) == curr_num >= num

\* faster_shortcut: `if num == 1 { return 1; }`, then the loop.
FasterShortcutStep ==
    /\ k_fn = "faster_shortcut"
    /\ IF k_num = 1
       THEN KernelReturn(1)
       ELSE IF FasterCond(k_num, k_curr)
            THEN KernelIterate(ShortcutNext(k_curr), ShortcutCount(k_curr, k_count))
            ELSE KernelReturn(k_count)

\* bitwise: `if num == 1 { return 1; }`, then the loop.
BitwiseStep ==
    /\ k_fn = "bitwise"
    /\ IF k_num = 1
       THEN KernelReturn(1)
       ELSE IF k_curr >= k_num
            THEN KernelIterate(BitwiseNext(k_curr), k_count + 1)
            ELSE KernelReturn(k_count)

NextKernel ==
    \/ \E k \in Kernels : KernelCall(k)
    \/ RecursiveStep
    \/ SimpleStep
    \/ ShortcutStep
    \/ FasterShortcutStep
    \/ BitwiseStep

KernelSpec == InitKernel /\ [][NextKernel]_vars

\* tests::ANSWERS: the expected result of recursive, simple and shortcut
\* for 1, 2, 3, ...
ANSWERS ==
    << 0, 1, 7, 2, 5, 8, 16, 3, 19, 6, 14, 9, 9, 17, 17, 4, 12, 20, 20, 7, 7, 15, 15, 10, 23, 10,
       111, 18, 18, 18, 106, 5, 26, 13, 13, 21, 21, 21, 34, 8, 109, 8, 29, 16, 16, 16, 104, 11,
       24, 24, 24, 11, 11, 112, 112, 19, 32, 19, 32, 19, 19, 107, 107, 6, 27, 27, 27, 14, 14, 14,
       102, 22 >>

\* tests::FASTER_ANSWERS: the expected result of faster_shortcut.
FASTER_ANSWERS ==
    << 1, 1, 6, 1, 3, 1, 11, 1, 3, 1, 8, 1, 3, 1, 11, 1, 3, 1, 6, 1, 3, 1, 8, 1, 3, 1, 96, 1, 3,
       1, 91, 1, 3, 1, 6, 1, 3, 1, 13, 1, 3, 1, 8, 1, 3, 1, 88, 1, 3, 1, 6, 1, 3, 1, 8, 1, 3, 1,
       11, 1, 3, 1, 88, 1, 3, 1, 6, 1, 3, 1, 83, 1, 3, 1, 8, 1, 3, 1, 13, 1, 3, 1, 6, 1, 3, 1, 8,
       1, 3, 1, 73, 1, 3, 1, 13, 1, 3, 1, 6, 1 >>

\* tests::BITWISE_ANSWERS: the expected result of bitwise.
BITWISE_ANSWERS ==
    << 1, 1, 3, 1, 2, 1, 6, 1, 2, 1, 5, 1, 2, 1, 5, 1, 2, 1, 3, 1, 2, 1, 4, 1, 2, 1, 52, 1, 2, 1,
       49, 1, 2, 1, 3, 1, 2, 1, 7, 1, 2, 1, 5, 1, 2, 1, 48, 1, 2, 1, 3, 1, 2, 1, 4, 1, 2, 1, 6, 1,
       2, 1, 46, 1, 2, 1, 3, 1, 2, 1, 45, 1, 2, 1, 5, 1, 2, 1, 7, 1, 2, 1, 3, 1, 2, 1, 4, 1, 2, 1,
       39, 1, 2, 1, 6, 1, 2, 1, 3, 1 >>

\* ------------------------------------------------------- claim vocabulary
\* ceil(d / b) for b >= 1.
CeilDiv(d, b) == (d + b - 1) \div b

\* Number of entries of sequence s that satisfy nothing but equality with x.
Occurrences(s, x) == Cardinality({i \in 1 .. Len(s) : s[i] = x})

\* The batch a summary or a send-log entry reports on.
BatchOf(r) == Batch(r.start, r.end)

\* The batches some worker is running, with multiplicity.
Running(b) ==
    Cardinality({w \in Workers : worker[w].busy
                                 /\ worker[w].batch_start = b.start
                                 /\ worker[w].batch_end = b.end})

SentBatches == [i \in 1 .. Len(sendLog) |-> BatchOf(sendLog[i])]

ChanBatches == [i \in 1 .. Len(chan) |-> BatchOf(chan[i])]

ReceivedBatches == [i \in 1 .. Len(received) |-> BatchOf(received[i])]

\* A call the claims about a finite, non-empty domain speak of.
FiniteCall == start < end /\ batch_size >= 1

\* ------------------------------------------------------------------- C1
\* C1: for solve(start, end, batch_size, threads) with start < end and
\* batch_size >= 1, the batches submitted so far, in submission order, start
\* at `start`, each begins where the previous one ended (so starts strictly
\* increase), each is non-empty and within [start, end), each but the last
\* of the call has exactly batch_size elements, the cursor sits at the end
\* of the last one, and once the loop is left the last batch ends at `end`:
\* the batches tile [start, end) exactly.
C1_Partition ==
    FiniteCall =>
        /\ \A i \in 1 .. Len(submitted) :
              /\ submitted[i].start < submitted[i].end
              /\ submitted[i].end <= end
              /\ submitted[i].start = (IF i = 1 THEN start ELSE submitted[i - 1].end)
              /\ i > 1 => submitted[i - 1].start < submitted[i].start
              /\ submitted[i].end - submitted[i].start <= batch_size
              /\ \/ submitted[i].end - submitted[i].start = batch_size
                 \/ i = Len(submitted) /\ submitted[i].end = end
        /\ batch_start = (IF submitted = << >> THEN start
                          ELSE submitted[Len(submitted)].end)
        /\ solve_pc \in {"join", "returned"} =>
              /\ submitted # << >>
              /\ submitted[Len(submitted)].end = end
              /\ \A n \in start .. end - 1 :
                    Cardinality({i \in 1 .. Len(submitted) :
                                    submitted[i].start <= n /\ n < submitted[i].end}) = 1

\* A call that has returned after submitting several batches, the last one
\* shorter than batch_size.
C1_Witness ==
    /\ FiniteCall
    /\ solve_pc = "returned"
    /\ Len(submitted) >= 2
    /\ submitted[Len(submitted)].end - submitted[Len(submitted)].start < batch_size

\* ------------------------------------------------------------------- C2
\* C2: in a finite call (start < end, batch_size >= 1) on a pool of at least
\* one thread with a live consumer,
\* every submitted batch is at every moment in exactly one place: still
\* queued, running on exactly one worker, or finished with exactly one send
\* attempted, which succeeded; so no batch is run twice or by two workers.
\* Every summary in the channel or received carries the bounds of a
\* submitted batch and no batch has two summaries.  Once solve has returned
\* exactly ceil((end - start) / batch_size) summaries exist, and when the
\* consumer observes closure solve has returned and the consumer holds all
\* of them, one per submitted batch.
C2_ExactlyOnce ==
    (FiniteCall /\ threads >= 1 /\ rx # "dropped") =>
        /\ \A i \in 1 .. Len(submitted) :
              Occurrences(queue, submitted[i]) + Running(submitted[i])
                + Occurrences(SentBatches, submitted[i]) = 1
        /\ Len(queue) + Cardinality({w \in Workers : worker[w].busy})
             + Len(sendLog) = Len(submitted)
        /\ \A i \in 1 .. Len(sendLog) : sendLog[i].ok
        /\ \A i \in 1 .. Len(sendLog) :
              Occurrences(ChanBatches, BatchOf(sendLog[i]))
                + Occurrences(ReceivedBatches, BatchOf(sendLog[i])) = 1
        /\ Len(chan) + Len(received) = Len(sendLog)
        /\ solve_pc = "returned" =>
              Len(chan) + Len(received) = CeilDiv(end - start, batch_size)
        /\ rx = "done" =>
              /\ solve_pc = "returned"
              /\ Len(received) = CeilDiv(end - start, batch_size)
              /\ \A i \in 1 .. Len(submitted) :
                    Occurrences(ReceivedBatches, submitted[i]) = 1

\* The consumer has seen closure after three or more batches ran on two
\* workers.
C2_Witness ==
    /\ FiniteCall
    /\ rx = "done"
    /\ threads = 2
    /\ Len(received) >= 3
    /\ Len(received) = CeilDiv(end - start, batch_size)

\* ------------------------------------------------------------------- C3
\* C3: solve returns only after the join: in the state where solve has
\* returned, the loop is over (every batch of the call has been submitted),
\* no job is queued or running, every submitted batch has had its send
\* (delivered into the channel unless the Receiver was already dropped),
\* and no Sender is left.  The channel is closed (no Sender left) exactly
\* when solve is over, never while solve is still running.
C3_ReturnAfterJoin ==
    /\ solve_pc = "returned" =>
          /\ ~LoopCond(batch_start)
          /\ queue = << >>
          /\ \A w \in Workers : ~worker[w].busy
          /\ Len(sendLog) = Len(submitted)
          /\ \A i \in 1 .. Len(submitted) : Occurrences(SentBatches, submitted[i]) >= 1
          /\ rx # "dropped" => \A i \in 1 .. Len(sendLog) : sendLog[i].ok
          /\ senders = 0
    /\ threads >= 1 => (senders = 0 <=> solve_pc = "returned")

\* solve has returned from a call of several batches with a live consumer.
C3_Witness ==
    /\ solve_pc = "returned"
    /\ Len(submitted) >= 2
    /\ rx = "live"
    /\ senders = 0

\* ------------------------------------------------------------------- C4
\* C4: under fair scheduling of the driver, the pool threads and the
\* consumer, a call on a finite domain (start <= end) with batch_size >= 1,
\* threads >= 1 and a live consumer always terminates: solve returns and
\* the consumer, having received one summary per submitted batch, observes
\* closure; until then some thread can always take a step (no deadlock).
C4_Terminates ==
    /\ (rx = "live" /\ start <= end /\ batch_size >= 1 /\ threads >= 1)
          ~> (solve_pc = "returned" /\ rx = "done" /\ chan = << >>
              /\ Len(received) = Len(submitted))
    /\ []((rx # "dropped" /\ start <= end /\ batch_size >= 1 /\ threads >= 1)
            => (solve_pc = "returned" /\ rx = "done") \/ ENABLED Next)

\* Everything has terminated after several batches.
C4_Witness ==
    /\ start < end
    /\ batch_size >= 1
    /\ solve_pc = "returned"
    /\ rx = "done"
    /\ Len(received) >= 2
    /\ Len(received) = Len(submitted)

\* ------------------------------------------------------------------- C5
\* C5: for an empty bounded domain (end = start) solve submits no batch, no
\* send is attempted and nothing enters the channel; solve never waits: the
\* loop is left at once and the join returns at once; the consumer that
\* observes closure has received nothing.
C5_EmptyDomain ==
    end = start =>
        /\ submitted = << >>
        /\ queue = << >>
        /\ sendLog = << >>
        /\ chan = << >>
        /\ received = << >>
        /\ solve_pc = "loop" => ENABLED SolveLoopExit /\ ~ENABLED SolveSubmit
        /\ solve_pc = "join" => ENABLED SolveReturn
        /\ rx = "done" => solve_pc = "returned" \/ threads = 0

\* solve(start, start, ...) has returned and the consumer has seen closure.
C5_Witness ==
    /\ end = start
    /\ solve_pc = "returned"
    /\ rx = "done"
    /\ received = << >>

\* ------------------------------------------------------------------- C6
\* C6 as the spec states it: with end = 0 the loop goes on (a further batch
\* of batch_size elements can always be submitted) and solve never leaves
\* the loop, let alone returns.
C6_Original ==
    (end = 0 /\ threads >= 1) =>
        /\ solve_pc \notin {"join", "returned"}
        /\ solve_pc = "loop" /\ Len(submitted) < MaxSubmitted => ENABLED SolveSubmit

\* C6, amended: solve does not treat end = 0 as unbounded.  Its loop
\* condition batch_start < end is false for end = 0 whatever start is, so
\* the loop body never runs, no batch is submitted, the join returns at
\* once and solve returns.
C6_EndZeroReturns ==
    (end = 0 /\ threads >= 1) =>
        /\ solve_pc = "loop" => ~ENABLED SolveSubmit /\ ENABLED SolveLoopExit
        /\ solve_pc = "join" => ENABLED SolveReturn
        /\ solve_pc \in {"loop", "join", "returned"} => submitted = << >> /\ senders <= 1
        /\ batch_start = start

\* solve(start, 0, ...) has returned.
C6_Witness ==
    /\ end = 0
    /\ threads >= 1
    /\ solve_pc = "returned"
    /\ submitted = << >>

\* ------------------------------------------------------------------- C7
\* C7 as the spec states it: for some configured multiple m (any m up to
\* MaxMultiple is tried) the batches submitted and not completed never
\* exceed m * threads by more than one.  The program's unbounded mode is
\* main's loop over bounded windows, each one call of solve on a finite
\* domain, so the statement is put to such calls.  It is implied by the
\* claim for every m <= MaxMultiple, so a state violating it refutes the
\* claim for each of them.
C7_Original ==
    (FiniteCall /\ threads >= 1) =>
        \E m \in 1 .. MaxMultiple : Outstanding <= m * threads + 1

\* C7, amended: solve applies no backpressure.  While the cursor is inside
\* the domain the next batch can be submitted whatever the number of
\* outstanding batches is, so that number is bounded only by the number of
\* batches of the call, ceil((end - start) / batch_size), which it reaches
\* when the driver outruns the workers.
C7_NoBackpressure ==
    (FiniteCall /\ threads >= 1) =>
        /\ solve_pc = "loop" /\ batch_start < end => ENABLED SolveSubmit
        /\ Outstanding <= Len(submitted)
        /\ Len(submitted) <= CeilDiv(end - start, batch_size)

\* Every batch of the call is outstanding at once, more than
\* MaxMultiple * threads + 1 of them.
C7_Witness ==
    /\ FiniteCall
    /\ threads >= 1
    /\ Outstanding = CeilDiv(end - start, batch_size)
    /\ Outstanding > MaxMultiple * threads + 1

\* ------------------------------------------------------------------- C8
\* The invalid calls of the spec's error taxonomy.
InvalidCall == (end # 0 /\ end < start) \/ batch_size = 0 \/ threads = 0

\* C8: solve rejects exactly the invalid calls at its entry, before any
\* batch is submitted.  What follows from it for every state: an invalid
\* call has submitted nothing and has not returned normally, and a valid
\* call has not been rejected.
C8_RejectsInvalid ==
    /\ InvalidCall => submitted = << >> /\ solve_pc # "returned"
    /\ ~InvalidCall => solve_pc # "panicked"

\* ------------------------------------------------------------------- C9
\* C9: a send fails only when the Receiver has been dropped, and then the
\* job panics: panic_count counts exactly the failed sends.  No batch has
\* its send attempted twice (no retry), a failed batch's summary is neither
\* in the channel nor received, the worker that panicked is free again, so
\* every submitted batch is still queued, running or has had its one send,
\* and by the time solve returns every submitted batch has been run.
C9_SendFailure ==
    /\ \A i \in 1 .. Len(sendLog) : ~sendLog[i].ok => rx = "dropped"
    /\ panic_count = Cardinality({i \in 1 .. Len(sendLog) : ~sendLog[i].ok})
    /\ (batch_size >= 1 /\ start < end) =>
          \A i \in 1 .. Len(sendLog) : Occurrences(SentBatches, BatchOf(sendLog[i])) = 1
    /\ \A i \in 1 .. Len(sendLog) :
          ~sendLog[i].ok => /\ Occurrences(ChanBatches, BatchOf(sendLog[i])) = 0
                            /\ Occurrences(ReceivedBatches, BatchOf(sendLog[i])) = 0
    /\ Outstanding + Len(sendLog) = Len(submitted)
    /\ queue # << >> /\ (\E w \in Workers : ~worker[w].busy)
          => ENABLED (\E w \in Workers : WorkerDequeue(w))
    /\ solve_pc = "returned" => Len(sendLog) = Len(submitted)

\* Two jobs have panicked on a dropped Receiver and a later batch is
\* running all the same.
C9_Witness ==
    /\ rx = "dropped"
    /\ panic_count >= 2
    /\ \E w \in Workers : worker[w].busy
    /\ received = << >>

\* ------------------------------------------------------------------ C10
\* C10 as the spec states it: once a job has aborted, solve does not return
\* normally.
C10_Original == panic_count > 0 => solve_pc # "returned"

\* C10, amended: the join does not surface an aborted job.  With the
\* Receiver dropped every job aborts, and still the join returns as soon as
\* no job is queued or running and solve returns normally; what is left of
\* the failure is the pool's panic count, which solve never reads, and the
\* missing summaries.
C10_JoinIgnoresPanics ==
    /\ (solve_pc = "join" /\ panic_count > 0 /\ Outstanding = 0) => ENABLED SolveReturn
    /\ (solve_pc = "returned" /\ rx = "dropped") =>
          panic_count = Len(submitted) /\ chan = << >> /\ received = << >>
    /\ solve_pc = "panicked" => threads = 0 /\ panic_count = 0

\* solve has returned normally although every one of several jobs aborted.
C10_Witness ==
    /\ solve_pc = "returned"
    /\ panic_count >= 2
    /\ panic_count = Len(submitted)

\* ------------------------------------------------------------------ C11
\* The kernels that claim to count the steps of the 3x+1 recurrence.
Canonical == {"recursive", "simple", "shortcut"}

\* C11: for every n in 1 .. MaxNum, recursive, simple and shortcut return
\* the same value, the step count the tests list for n (ANSWERS); while
\* one of them runs, the count so far plus the listed step count of the
\* current value is the listed step count of n, so shortcut's folded odd
\* step counted as 2 never changes the result; for n = 27 the result is 111.
C11_KernelsAgree ==
    /\ \A k \in Canonical \cap k_done : k_result[k] = ANSWERS[k_num]
    /\ \A k1, k2 \in Canonical \cap k_done : k_result[k1] = k_result[k2]
    /\ (k_fn \in Canonical /\ k_curr <= Len(ANSWERS)) =>
          k_count + ANSWERS[k_curr] = ANSWERS[k_num]
    /\ k_num = 27 => \A k \in Canonical \cap k_done : k_result[k] = 111

\* All three have returned 111 for 27.
C11_Witness ==
    /\ k_num = 27
    /\ Canonical \subseteq k_done
    /\ k_result["recursive"] = 111
    /\ k_result["simple"] = 111
    /\ k_result["shortcut"] = 111

\* ------------------------------------------------------------------ C12
\* C12 as the spec states it: bitwise returns what simple returns.
C12_Original ==
    {"bitwise", "simple"} \subseteq k_done => k_result["bitwise"] = k_result["simple"]

\* C12, amended: bitwise does not return simple's step count.  It returns
\* 1 for n = 1 and otherwise the number of iterations of its own loop (a
\* folded odd step, or the removal of all trailing zero bits at once) until
\* the value is below n: the value the tests list in BITWISE_ANSWERS, which
\* is 1 for every even n, never more than what faster_shortcut returns, and
\* equal to simple's result for n = 2 only.
C12_BitwiseIsItsOwnCount ==
    /\ "bitwise" \in k_done =>
          /\ k_result["bitwise"] = BITWISE_ANSWERS[k_num]
          /\ (k_num = 1 \/ k_num % 2 = 0) => k_result["bitwise"] = 1
          /\ k_num >= 2 => k_last["bitwise"] < k_num
    /\ {"bitwise", "faster_shortcut"} \subseteq k_done =>
          k_result["bitwise"] <= k_result["faster_shortcut"]
    /\ {"bitwise", "simple"} \subseteq k_done =>
          (k_result["bitwise"] = k_result["simple"] <=> k_num = 2)

\* bitwise has returned 52 and simple 111 for 27.
C12_Witness ==
    /\ k_num = 27
    /\ {"bitwise", "simple"} \subseteq k_done
    /\ k_result["bitwise"] = 52
    /\ k_result["simple"] = 111

\* ------------------------------------------------------------------ C13
\* C13 as the spec states it: every kernel returns at least 1 for every
\* n >= 1.
C13_Original == \A k \in k_done : k_result[k] >= 1

\* C13, amended: faster_shortcut and bitwise return at least 1 for every
\* n >= 1 (1 for n = 1); recursive, simple and shortcut return 0 for n = 1,
\* as the tests' ANSWERS expect, and at least 1 for every n >= 2.
C13_AtLeastOneButForOne ==
    /\ \A k \in {"faster_shortcut", "bitwise"} \cap k_done :
          k_result[k] >= 1 /\ (k_num = 1 => k_result[k] = 1)
    /\ \A k \in Canonical \cap k_done :
          IF k_num = 1 THEN k_result[k] = 0 ELSE k_result[k] >= 1

\* All five kernels have returned for n = 1.
C13_Witness ==
    /\ k_num = 1
    /\ k_done = Kernels
    /\ k_result["simple"] = 0
    /\ k_result["bitwise"] = 1

\* ------------------------------------------------------------------ C17
\* C17: faster_shortcut(1) = 1.  For n >= 2 faster_shortcut runs shortcut's
\* iteration (1 per halving, 2 per folded odd step) from n while the value
\* is at least n and returns the count with the first value m below n, so
\* that shortcut(n) = faster_shortcut(n) + shortcut(m); for every even n it
\* returns 1 (m = n / 2).  The results are those the tests list in
\* FASTER_ANSWERS.
C17_FasterIsShortcutPrefix ==
    /\ k_fn = "faster_shortcut" /\ k_num >= 2 /\ k_curr < k_num =>
          k_count + shortcut(k_curr) = ANSWERS[k_num]
    /\ "faster_shortcut" \in k_done =>
          /\ k_result["faster_shortcut"] = FASTER_ANSWERS[k_num]
          /\ k_num = 1 => k_result["faster_shortcut"] = 1
          /\ k_num >= 2 =>
                /\ k_last["faster_shortcut"] < k_num
                /\ k_last["faster_shortcut"] >= 1
                /\ k_num % 2 = 0 =>
                      /\ k_result["faster_shortcut"] = 1
                      /\ k_last["faster_shortcut"] = k_num \div 2
                /\ "shortcut" \in k_done =>
                      k_result["shortcut"] = k_result["faster_shortcut"]
                                               + shortcut(k_last["faster_shortcut"])

\* For 27 faster_shortcut has returned 96 on reaching 23 and shortcut 111.
C17_Witness ==
    /\ k_num = 27
    /\ {"faster_shortcut", "shortcut"} \subseteq k_done
    /\ k_result["faster_shortcut"] = 96
    /\ k_last["faster_shortcut"] = 23
    /\ k_result["shortcut"] = 111

\* ------------------------------------------------------ batch vocabulary
\* The largest f[n] over n in [s, e); 0 when the range is empty.
MaxOver(f, s, e) ==
    IF s >= e THEN 0
    ELSE CHOOSE m \in {f[n] : n \in s .. e - 1} :
            \A n \in s .. e - 1 : f[n] <= m

\* Summaries that reached the channel: waiting in it or taken by the consumer.
Delivered == {chan[i] : i \in 1 .. Len(chan)} \cup {received[i] : i \in 1 .. Len(received)}

\* The consumer took a later-submitted batch before an earlier-submitted one.
OutOfOrder ==
    \E i, j \in 1 .. Len(received) : i < j /\ received[i].start > received[j].start

RECURSIVE SumLengths(_)
SumLengths(s) == IF s = << >> THEN 0 ELSE (Head(s).end - Head(s).start) + SumLengths(Tail(s))

RECURSIVE MaxSteps(_)
MaxSteps(s) == IF s = << >> THEN 0 ELSE Max(Head(s).max_steps, MaxSteps(Tail(s)))

\* ------------------------------------------------------------------ C14
\* C14 as stated: every delivered BatchSummary carries the maximum of the
\* canonical step count (ANSWERS, what simple returns) over its batch.
C14_Original ==
    \A r \in Delivered : r.max_steps = MaxOver(ANSWERS, r.start, r.end)

\* C14 amended: a delivered BatchSummary carries the maximum over its batch
\* of what bitwise returns (BITWISE_ANSWERS), not of the canonical count.
\* It is at least 1 for a non-empty batch; it equals the canonical maximum
\* only when the batch's largest element is 2, exceeds it for the batch
\* [1, 2) and is strictly below it for every batch that holds some n >= 3.
C14_DeliveredIsBitwiseMax ==
    \A r \in Delivered :
        /\ r.max_steps = MaxOver(BITWISE_ANSWERS, r.start, r.end)
        /\ r.start < r.end =>
              /\ r.max_steps >= 1
              /\ r.end = 2 => r.max_steps > MaxOver(ANSWERS, r.start, r.end)
              /\ r.end = 3 => r.max_steps = MaxOver(ANSWERS, r.start, r.end)
              /\ r.end > 3 => r.max_steps < MaxOver(ANSWERS, r.start, r.end)

\* The consumer holds the summary of [1, 4): max_steps is 3 while the
\* canonical maximum is steps(3) = 7.
C14_Witness ==
    \E i \in 1 .. Len(received) :
        /\ received[i].start = 1 /\ received[i].end = 4
        /\ received[i].max_steps = 3
        /\ MaxOver(ANSWERS, 1, 4) = 7

\* ------------------------------------------------------------------ C15
\* C15: summaries may reach the consumer in an order other than submission
\* order; whenever the consumer has taken a later-submitted batch before an
\* earlier one, what it holds are distinct submitted batches, and once it
\* has terminated it holds exactly one summary per submitted batch.
C15_OrderFree ==
    OutOfOrder =>
        /\ threads >= 2 /\ Len(submitted) >= 2
        /\ \A i \in 1 .. Len(received) :
              Occurrences(submitted, BatchOf(received[i])) >= 1
        /\ \A b \in {submitted[i] : i \in 1 .. Len(submitted)} :
              Occurrences(ReceivedBatches, b) <= Occurrences(submitted, b)
        /\ rx = "done" =>
              \A b \in {submitted[i] : i \in 1 .. Len(submitted)} :
                  Occurrences(ReceivedBatches, b) = Occurrences(submitted, b)

\* The consumer has terminated holding three summaries, the second
\* submitted batch first.
C15_Witness ==
    /\ rx = "done"
    /\ threads = 2
    /\ Len(submitted) = 3 /\ Len(received) = 3
    /\ BatchOf(received[1]) = submitted[2]
    /\ OutOfOrder

\* ------------------------------------------------------------------ C16
\* C16: a job's max_steps is a running maximum, started at 0, of bitwise
\* over the elements of its own batch visited so far, in order, each once:
\* while the job runs, batch_start <= num <= batch_end and max_steps is the
\* maximum of bitwise over [batch_start, num); the summary it sends carries
\* the batch's bounds and the maximum over the whole batch.
C16_RunningMax ==
    /\ \A w \in Workers : worker[w].busy =>
          /\ worker[w].batch_start <= worker[w].num
          /\ worker[w].num <= Max(worker[w].batch_end, worker[w].batch_start)
          /\ worker[w].max_steps =
                MaxOver(BITWISE_ANSWERS, worker[w].batch_start, worker[w].num)
          /\ Occurrences(submitted, Batch(worker[w].batch_start, worker[w].batch_end)) >= 1
    /\ \A i \in 1 .. Len(chan) :
          /\ chan[i].max_steps = MaxOver(BITWISE_ANSWERS, chan[i].start, chan[i].end)
          /\ Occurrences(submitted, BatchOf(chan[i])) >= 1

\* The summary of [3, 5) is in the channel with max_steps 3 = bitwise(3),
\* although bitwise(4) = 1 came later, while another worker is part-way
\* through its own batch.
C16_Witness ==
    /\ \E i \in 1 .. Len(chan) :
          chan[i] = BatchSummary(3, 5, 3)
    /\ \E w \in Workers :
          /\ worker[w].busy
          /\ worker[w].batch_start < worker[w].num
          /\ worker[w].num < worker[w].batch_end

\* ------------------------------------------------------------------ C19
\* C19: the consumer's `solves` is the sum of end - start and its max_steps
\* the maximum of max_steps over the summaries received so far, in whatever
\* order they came; when it terminates after solve has returned from a call
\* with start <= end and batch_size >= 1, solves = end - start.
C19_ConsumerTotals ==
    /\ solves = SumLengths(received)
    /\ rx_max_steps = MaxSteps(received)
    /\ rx = "done" /\ solve_pc = "returned" /\ start <= end /\ batch_size >= 1 =>
          /\ solves = end - start
          /\ rx_max_steps = MaxOver(BITWISE_ANSWERS, start, end)

\* The consumer has terminated after taking [4, 6) before [1, 4): it
\* counted 5 numbers and kept max_steps 3, which came in last.
C19_Witness ==
    /\ rx = "done" /\ solve_pc = "returned"
    /\ start = 1 /\ end = 6 /\ batch_size = 3
    /\ Len(received) = 2
    /\ received[1].start = 4 /\ received[2].start = 1
    /\ received[1].max_steps < received[2].max_steps
    /\ solves = 5 /\ rx_max_steps = 3

\* ------------------------------------------------------------------ C18
\* C18: in a bounded run that get_args accepted, with end > start,
\* threads >= 1 and no batch override, the batch size handed to solve is at
\* least 1 and every batch solve submits is non-empty (batch_start
\* advances); when run has returned the consumer has counted exactly
\* end - start numbers.
C18_DefaultBatchSizePositive ==
    /\ main_pc \in {"solve", "exit"}
    /\ args.end > args.start
    /\ args.threads >= 1
    /\ args.batch_override = None
    => /\ batch_size >= 1
       /\ \A i \in 1 .. Len(submitted) : submitted[i].start < submitted[i].end
       /\ main_pc = "exit" => solves = args.end - args.start

\* ------------------------------------------------------------------ C20
\* The k-th window of an unbounded run.
WindowStart(k) == args.start + (k - 1) * StepSize

\* C20: with end = 0 and threads >= 1 main never exits; the calls of run
\* are over the windows [start + k*S, start + (k+1)*S), k = 0, 1, ..., in
\* order, each starting where the one before ended; a window is started
\* only after the one before has returned from solve and its consumer has
\* terminated having counted the whole window, with nothing queued, running
\* or in the channel; every job and summary in flight belongs to the
\* current window, and the jobs outstanding never exceed the batch count of
\* one window.
C20_WindowsInSequence ==
    args.end = 0 /\ args.threads >= 1 /\ main_pc # "get_args" =>
        /\ main_pc \in {"settings", "run", "solve"}
        /\ \A k \in 1 .. Len(windows) :
              /\ windows[k].start = WindowStart(k)
              /\ windows[k].end = WindowStart(k + 1)
              /\ windows[k].terminated
              /\ windows[k].counted
        /\ main_pc \in {"run", "solve"} =>
              /\ main_start = WindowStart(Len(windows) + 1)
              /\ main_end = main_start + StepSize
        /\ main_pc = "run" /\ windows # << >> =>
              /\ solve_pc = "returned" /\ rx = "done"
              /\ Outstanding = 0 /\ senders = 0 /\ chan = << >>
              /\ \A i \in 1 .. Len(submitted) :
                    Occurrences(ReceivedBatches, submitted[i]) = 1
        /\ main_pc = "solve" =>
              /\ start = main_start /\ end = main_end
              /\ batch_size = Args_batch_size(args)
              /\ \A r \in Delivered : start <= r.start /\ r.end <= end
              /\ \A i \in 1 .. Len(queue) : start <= queue[i].start /\ queue[i].end <= end
              /\ \A w \in Workers : worker[w].busy =>
                    start <= worker[w].batch_start /\ worker[w].batch_end <= end
              /\ batch_size >= 1 => Outstanding <= CeilDiv(StepSize, batch_size)

\* Two windows have been run with two threads and the default batch size,
\* the second right after the first, and main is about to start a third.
C20_Witness ==
    /\ args.end = 0 /\ args.threads = 2 /\ args.batch_override = None
    /\ main_pc = "run"
    /\ Len(windows) = 2
    /\ windows[2].start = windows[1].end
    /\ windows[2].terminated /\ windows[2].counted
    /\ main_start = args.start + 2 * StepSize
    /\ Len(received) = CeilDiv(StepSize, DefaultBatchSize)

====
